---- MODULE Spec2Model ----
EXTENDS Integers, Sequences, FiniteSets, TLC

(***************************************************************************)
(* macro_state: a file-backed key-value store for macro expansion.  One    *)
(* state file per (key, COMPILE_TIME); two families of entry points, the   *)
(* macros of macros/src/macros.rs and the proc_* functions of              *)
(* src/macro_state.rs, each with its own COMPILE_TIME cell.                *)
(***************************************************************************)

\* ------------------------------------------------------------ characters
\* A string is a sequence of characters.  NL is the newline character, BS the
\* backslash; "n" is the letter n (the second character of the escape).
NL == "NL"
BS == "BS"
Chars == {"n", BS, NL}

\* ---------------------------------------------------------------- bounds
MaxValLen == 1
MaxFileLen == 3
MaxItemLen == 3
MaxListLen == 2
MaxClock == 2
MaxThreads == 2

RECURSIVE Strings(_)
Strings(n) ==
  IF n = 0 THEN {<<>>}
  ELSE LET S == Strings(n - 1)
       IN  S \cup {Append(s, c) : s \in {t \in S : Len(t) = n - 1}, c \in Chars}

\* The escape sequence itself, as a value: backslash + n.
Escape == <<BS, "n">>

Values == Strings(MaxValLen) \cup {Escape}
TinyValues == {<<>>, <<"n">>}
Items == Strings(MaxItemLen)
Keys == {<<"k">>, <<"k", "_", "1">>}
OneKey == {<<"k">>}
Apis == {"macro", "proc"}

\* -------------------------------------------------- std::str / std::fmt
\* str::replace("\n", "\\n"): every newline becomes backslash + n.
RECURSIVE EscapeNewlines(_)
EscapeNewlines(s) ==
  IF s = <<>> THEN <<>>
  ELSE (IF Head(s) = NL THEN <<BS, "n">> ELSE <<Head(s)>>) \o EscapeNewlines(Tail(s))

\* str::replace("\\n", "\n"): every non-overlapping backslash + n, scanned
\* from the left, becomes a newline.
RECURSIVE UnescapeNewlines(_)
UnescapeNewlines(s) ==
  IF Len(s) < 2 THEN s
  ELSE IF s[1] = BS /\ s[2] = "n"
       THEN <<NL>> \o UnescapeNewlines(SubSeq(s, 3, Len(s)))
       ELSE <<s[1]>> \o UnescapeNewlines(Tail(s))

\* The value with its last character dropped when that character is a newline.
StripTrailingNewline(s) ==
  IF s # <<>> /\ s[Len(s)] = NL THEN SubSeq(s, 1, Len(s) - 1) ELSE s

\* str::split("\n"): the pieces between newlines; the empty string has one
\* (empty) piece.
RECURSIVE SplitNewline(_)
SplitNewline(s) ==
  IF \A i \in 1..Len(s) : s[i] # NL THEN <<s>>
  ELSE LET i == CHOOSE j \in 1..Len(s) : s[j] = NL /\ \A h \in 1..(j - 1) : s[h] # NL
       IN  <<SubSeq(s, 1, i - 1)>> \o SplitNewline(SubSeq(s, i + 1, Len(s)))

\* format!("{}", n) of an unsigned integer: its decimal digits.
RECURSIVE Digits(_)
Digits(n) ==
  IF n < 10 THEN <<ToString(n)>> ELSE Digits(n \div 10) \o <<ToString(n % 10)>>

\* ------------------------------------------------------------ addressing
STATE_DIR == "MACRO_STATE_DIR"

\* A path that leaves the epoch out of the file name.
state_file_path_no_epoch(key, ctime) ==
  <<STATE_DIR, "/", "macro_state_">> \o key

\* STATE_DIR joined with format!("macro_state_{}_{}", key, ctime).
state_file_path(key, ctime) ==
  <<STATE_DIR, "/", "macro_state_">> \o key \o <<"_">> \o Digits(ctime)

\* ----------------------------------------------------------------- state
VARIABLES
  fs,            \* the storage root: path -> content of each existing file
  clock,         \* SystemTime::now(), in nanoseconds since UNIX_EPOCH
  COMPILE_TIME,  \* the lazy_static cell of each crate; Uninit until first use
  last,          \* the call that returned last in this process, with its outcome
  shadow,        \* per (key, epoch): what the calls made so far have done to it
  threads        \* per thread: how far its write call has got, and with what

vars == <<fs, clock, COMPILE_TIME, last, shadow, threads>>

Uninit == 0

\* I/O steps the storage backend may fail at.
FaultPoints == {"read", "open", "write_all", "remove"}

\* lazy_static deref: the first access stores the clock reading.
Deref(cell, api) ==
  [cell EXCEPT ![api] = IF @ = Uninit THEN clock ELSE @]

Put(f, p, d) == [q \in DOMAIN f \cup {p} |-> IF q = p THEN d ELSE f[q]]
Del(f, p) == [q \in DOMAIN f \ {p} |-> f[q]]

Min(a, b) == IF a < b THEN a ELSE b

\* fs::read_to_string(path)
ReadToString(f, p, F) ==
  IF "read" \in F THEN [ok |-> FALSE, err |-> "Io", str |-> <<>>]
  ELSE IF p \in DOMAIN f THEN [ok |-> TRUE, err |-> "", str |-> f[p]]
  ELSE [ok |-> FALSE, err |-> "NotFound", str |-> <<>>]

\* file.write_all(bytes) at the end of the file; a failing write may have
\* written the first n bytes.  Nothing is written for an empty buffer.
WriteAll(f, p, bytes, F, n) ==
  IF "write_all" \in F /\ bytes # <<>>
  THEN [fs |-> Put(f, p, f[p] \o SubSeq(bytes, 1, Min(n, Len(bytes) - 1))),
        ok |-> FALSE, err |-> "Io"]
  ELSE [fs |-> Put(f, p, f[p] \o bytes), ok |-> TRUE, err |-> ""]

\* File::create(path) then write_all: the file is truncated first.
CreateAndWrite(f, p, bytes, F, n) ==
  IF "open" \in F THEN [fs |-> f, ok |-> FALSE, err |-> "Io"]
  ELSE WriteAll(Put(f, p, <<>>), p, bytes, F, n)

\* OpenOptions::new().append(true).create(true).open(path) then write_all.
OpenAppendAndWrite(f, p, bytes, F, n) ==
  IF "open" \in F THEN [fs |-> f, ok |-> FALSE, err |-> "Io"]
  ELSE WriteAll(IF p \in DOMAIN f THEN f ELSE Put(f, p, <<>>), p, bytes, F, n)

\* fs::remove_file(path)
RemoveFile(f, p, F) ==
  IF "remove" \in F THEN [fs |-> f, ok |-> FALSE, err |-> "Io"]
  ELSE IF p \in DOMAIN f THEN [fs |-> Del(f, p), ok |-> TRUE, err |-> ""]
  ELSE [fs |-> f, ok |-> FALSE, err |-> "NotFound"]

\* The decoding of a state file's content as a list.
DecodeList(value) ==
  LET pieces == SplitNewline(StripTrailingNewline(value))
  IN  [i \in 1..Len(pieces) |-> UnescapeNewlines(pieces[i])]

\* ---------------------------------------------------------------- threads
Threads == 1..MaxThreads

\* A thread that is in no call.  pc: "init" while it runs the initialiser of
\* a COMPILE_TIME cell, "epoch" once it holds the cell's value (seen),
\* "created" once File::create has returned, "written" once write_all has.
Idle == [pc |-> "idle", api |-> "", seen |-> Uninit, key |-> <<>>, buf |-> <<>>]

\* The threads of a family that hold a value of its COMPILE_TIME cell.
Holding(api) ==
  {t \in Threads : threads[t].api = api
                     /\ threads[t].pc \in {"epoch", "created", "written"}}

\* No thread is inside a call.
Quiet == \A t \in Threads : threads[t].pc \in {"idle", "written"}

\* write(2) of bytes at offset off of a file that holds content.
WriteAt(content, off, bytes) ==
  SubSeq(content, 1, off) \o bytes
    \o SubSeq(content, off + Len(bytes) + 1, Len(content))

\* ------------------------------------------------------- call bookkeeping
Res(ok, err, str, flag, list) ==
  [ok |-> ok, err |-> err, str |-> str, flag |-> flag, list |-> list]

\* What is known of a (key, epoch) no call has touched.  born: a write, append
\* or init call has been made on it; kind: what the calls so far make of it
\* ("absent", a "scalar" val, a "list" of appended items, "mixed", "unknown"
\* after a failed call); mut: the last call that changed it; over: its kind
\* before that call; fresh: that call is the latest call of the process.
\* After the first append on top of a scalar, base is that scalar, under the
\* kind the scalar was written over, and items the one appended item.
Untouched ==
  [born |-> FALSE, kind |-> "absent", mut |-> "none", val |-> <<>>,
   items |-> <<>>, over |-> "absent", fresh |-> FALSE,
   base |-> <<>>, under |-> "absent"]

Shadow(sh, ke) == IF ke \in DOMAIN sh THEN sh[ke] ELSE Untouched

Stale(sh) == [x \in DOMAIN sh |-> [sh[x] EXCEPT !.fresh = FALSE]]

NoCall ==
  [op |-> "none", api |-> "", key |-> <<>>, epoch |-> 0, arg |-> <<>>, faults |-> {},
   ok |-> TRUE, err |-> "", str |-> <<>>, flag |-> FALSE, list |-> <<>>,
   had |-> FALSE, prekind |-> "absent", fresh |-> FALSE, effect |-> "none"]

\* The record of (key, epoch) after a call with the given effect on it:
\* "write", "init" (the default was stored), "append", "clear", or "fault"
\* (an I/O step of the call failed).
Entry(old, op, effect, arg) ==
  LET b == old.born \/ op \in {"write", "append", "init"}
  IN  CASE effect \in {"write", "init"} ->
             [born |-> b, kind |-> "scalar", mut |-> effect, val |-> arg,
              items |-> <<>>, over |-> old.kind, fresh |-> TRUE,
              base |-> <<>>, under |-> "absent"]
        [] effect = "append" ->
             [born |-> b, mut |-> "append", val |-> arg,
              kind |-> IF old.kind \in {"absent", "list"} THEN "list" ELSE "mixed",
              items |-> IF old.kind \in {"absent", "list"} THEN Append(old.items, arg)
                        ELSE IF old.kind = "scalar" THEN <<arg>> ELSE <<>>,
              over |-> old.kind, fresh |-> TRUE,
              base |-> IF old.kind = "scalar" THEN old.val ELSE <<>>,
              under |-> IF old.kind = "scalar" THEN old.over ELSE "absent"]
        [] effect = "clear" ->
             [born |-> b, kind |-> "absent", mut |-> "clear", val |-> <<>>,
              items |-> <<>>, over |-> old.kind, fresh |-> TRUE,
              base |-> <<>>, under |-> "absent"]
        [] OTHER ->
             [born |-> b, kind |-> "unknown", mut |-> "fault", val |-> arg,
              items |-> <<>>, over |-> old.kind, fresh |-> TRUE,
              base |-> <<>>, under |-> "absent"]

\* effect "none": the call stored and removed nothing.
Advance(sh, ke, op, effect, arg) ==
  IF effect = "none" THEN Stale(sh)
  ELSE [x \in DOMAIN sh \cup {ke} |->
          IF x = ke THEN Entry(Shadow(sh, ke), op, effect, arg)
          ELSE [sh[x] EXCEPT !.fresh = FALSE]]

\* The call returns: the cell is initialised, the files are as the call left
\* them, and the call and its outcome are on record (had: the state file
\* existed when the call was made).
Return(api, op, key, arg, F, ct, p, newfs, r, effect) ==
  /\ COMPILE_TIME' = ct
  /\ fs' = newfs
  /\ last' = [op |-> op, api |-> api, key |-> key, epoch |-> ct[api], arg |-> arg,
              faults |-> F, ok |-> r.ok, err |-> r.err, str |-> r.str, flag |-> r.flag,
              list |-> r.list, had |-> p \in DOMAIN fs,
              prekind |-> Shadow(shadow, <<key, ct[api]>>).kind,
              fresh |-> Shadow(shadow, <<key, ct[api]>>).fresh, effect |-> effect]
  /\ shadow' = Advance(shadow, <<key, ct[api]>>, op, effect, arg)
  /\ UNCHANGED <<clock, threads>>

\* --------------------------------------- src/macro_state.rs: proc_* functions
\* A write that keeps only the first character of the key in the file name.
proc_write_state_short_key(key, value, F, n) ==
  LET ct == Deref(COMPILE_TIME, "proc")
      p == state_file_path(SubSeq(key, 1, 1), ct["proc"])
      w == CreateAndWrite(fs, p, value, F, n)
  IN  Return("proc", "write", key, value, F, ct, p, w.fs,
             Res(w.ok, w.err, <<>>, FALSE, <<>>), IF w.ok THEN "write" ELSE "fault")

proc_write_state(key, value, F, n) ==
  LET ct == Deref(COMPILE_TIME, "proc")
      p == state_file_path(key, ct["proc"])
      w == CreateAndWrite(fs, p, value, F, n)
  IN  Return("proc", "write", key, value, F, ct, p, w.fs,
             Res(w.ok, w.err, <<>>, FALSE, <<>>), IF w.ok THEN "write" ELSE "fault")

\* A read that removes the state file it has read.
proc_read_state_consuming(key, F) ==
  LET ct == Deref(COMPILE_TIME, "proc")
      p == state_file_path(key, ct["proc"])
      r == ReadToString(fs, p, F)
  IN  Return("proc", "read", key, <<>>, F, ct, p, IF r.ok THEN Del(fs, p) ELSE fs,
             Res(r.ok, r.err, r.str, FALSE, <<>>), "none")

\* A read that trims the trailing newline of what it returns.
proc_read_state_trimmed(key, F) ==
  LET ct == Deref(COMPILE_TIME, "proc")
      p == state_file_path(key, ct["proc"])
      r == ReadToString(fs, p, F)
  IN  Return("proc", "read", key, <<>>, F, ct, p, fs,
             Res(r.ok, r.err, StripTrailingNewline(r.str), FALSE, <<>>), "none")

proc_read_state(key, F) ==
  LET ct == Deref(COMPILE_TIME, "proc")
      p == state_file_path(key, ct["proc"])
      r == ReadToString(fs, p, F)
  IN  Return("proc", "read", key, <<>>, F, ct, p, fs,
             Res(r.ok, r.err, r.str, FALSE, <<>>), "none")

\* A has that only looks whether the state file exists, not whether it reads.
proc_has_state_exists(key, F) ==
  LET ct == Deref(COMPILE_TIME, "proc")
      p == state_file_path(key, ct["proc"])
  IN  Return("proc", "has", key, <<>>, F, ct, p, fs,
             Res(TRUE, "", <<>>, p \in DOMAIN fs, <<>>), "none")

proc_has_state(key, F) ==
  LET ct == Deref(COMPILE_TIME, "proc")
      p == state_file_path(key, ct["proc"])
      r == ReadToString(fs, p, F)
  IN  Return("proc", "has", key, <<>>, F, ct, p, fs,
             Res(TRUE, "", <<>>, r.ok, <<>>), "none")

\* A clear whose test is inverted: an existing state file is left in place.
proc_clear_state_inverted(key, F) ==
  LET ct == Deref(COMPILE_TIME, "proc")
      p == state_file_path(key, ct["proc"])
  IN  Return("proc", "clear", key, <<>>, F, ct, p, fs,
             Res(TRUE, "", <<>>, FALSE, <<>>), "clear")

proc_clear_state(key, F) ==
  LET ct == Deref(COMPILE_TIME, "proc")
      p == state_file_path(key, ct["proc"])
      has == ReadToString(fs, p, F).ok
      rm == RemoveFile(fs, p, F)
  IN  IF has
      THEN Return("proc", "clear", key, <<>>, F, ct, p, rm.fs,
                  Res(rm.ok, rm.err, <<>>, FALSE, <<>>),
                  IF rm.ok THEN "clear" ELSE "fault")
      ELSE Return("proc", "clear", key, <<>>, F, ct, p, fs,
                  Res(TRUE, "", <<>>, FALSE, <<>>),
                  IF "read" \in F THEN "fault" ELSE "clear")

\* An init that stores its default whether or not the key holds a value.
proc_init_state_overwrite(key, default_value, F, n) ==
  LET ct == Deref(COMPILE_TIME, "proc")
      p == state_file_path(key, ct["proc"])
      w == CreateAndWrite(fs, p, default_value, F, n)
  IN  Return("proc", "init", key, default_value, F, ct, p, w.fs,
             Res(w.ok, w.err, IF w.ok THEN default_value ELSE <<>>, FALSE, <<>>),
             IF w.ok THEN "init" ELSE "fault")

proc_init_state(key, default_value, F, n) ==
  LET ct == Deref(COMPILE_TIME, "proc")
      p == state_file_path(key, ct["proc"])
      r == ReadToString(fs, p, F)
      w == CreateAndWrite(fs, p, default_value, F, n)
  IN  IF r.ok
      THEN Return("proc", "init", key, default_value, F, ct, p, fs,
                  Res(TRUE, "", r.str, FALSE, <<>>), "none")
      ELSE Return("proc", "init", key, default_value, F, ct, p, w.fs,
                  Res(w.ok, w.err, IF w.ok THEN default_value ELSE <<>>, FALSE, <<>>),
                  IF w.ok THEN "init" ELSE "fault")

\* An append that stores the item as it is, its newlines not escaped.
proc_append_state_raw(key, value, F, n) ==
  LET ct == Deref(COMPILE_TIME, "proc")
      bytes == value \o <<NL>>
      p == state_file_path(key, ct["proc"])
      w == OpenAppendAndWrite(fs, p, bytes, F, n)
  IN  Return("proc", "append", key, value, F, ct, p, w.fs,
             Res(w.ok, w.err, <<>>, FALSE, <<>>), IF w.ok THEN "append" ELSE "fault")

proc_append_state(key, value, F, n) ==
  LET ct == Deref(COMPILE_TIME, "proc")
      bytes == EscapeNewlines(value) \o <<NL>>
      p == state_file_path(key, ct["proc"])
      w == OpenAppendAndWrite(fs, p, bytes, F, n)
  IN  Return("proc", "append", key, value, F, ct, p, w.fs,
             Res(w.ok, w.err, <<>>, FALSE, <<>>), IF w.ok THEN "append" ELSE "fault")

\* A read_state_vec that hands a failed read to its caller.
proc_read_state_vec_failing(key, F) ==
  LET ct == Deref(COMPILE_TIME, "proc")
      p == state_file_path(key, ct["proc"])
      r == ReadToString(fs, p, F)
  IN  Return("proc", "read_vec", key, <<>>, F, ct, p, fs,
             Res(r.ok \/ r.err = "NotFound", IF r.err = "NotFound" THEN "" ELSE r.err,
                 <<>>, FALSE, IF r.ok THEN DecodeList(r.str) ELSE <<>>),
             "none")

proc_read_state_vec(key, F) ==
  LET ct == Deref(COMPILE_TIME, "proc")
      p == state_file_path(key, ct["proc"])
      r == ReadToString(fs, p, F)
  IN  Return("proc", "read_vec", key, <<>>, F, ct, p, fs,
             Res(TRUE, "", <<>>, FALSE, IF r.ok THEN DecodeList(r.str) ELSE <<>>),
             "none")

\* ------------------------------------------- macros/src/macros.rs: the macros
\* A write that opens the state file without truncating it.
write_state_appending(key, value, F, n) ==
  LET ct == Deref(COMPILE_TIME, "macro")
      state_file == state_file_path(key, ct["macro"])
      w == OpenAppendAndWrite(fs, state_file, value, F, n)
  IN  Return("macro", "write", key, value, F, ct, state_file, w.fs,
             Res(w.ok, w.err, <<>>, FALSE, <<>>), IF w.ok THEN "write" ELSE "fault")

write_state(key, value, F, n) ==
  LET ct == Deref(COMPILE_TIME, "macro")
      state_file == state_file_path(key, ct["macro"])
      w == CreateAndWrite(fs, state_file, value, F, n)
  IN  Return("macro", "write", key, value, F, ct, state_file, w.fs,
             Res(w.ok, w.err, <<>>, FALSE, <<>>), IF w.ok THEN "write" ELSE "fault")

\* An append that opens the state file the way write does, truncating it.
append_state_truncating(key, value, F, n) ==
  LET ct == Deref(COMPILE_TIME, "macro")
      state_file == state_file_path(key, ct["macro"])
      bytes == EscapeNewlines(value) \o <<NL>>
      w == CreateAndWrite(fs, state_file, bytes, F, n)
  IN  Return("macro", "append", key, value, F, ct, state_file, w.fs,
             Res(w.ok, w.err, <<>>, FALSE, <<>>), IF w.ok THEN "append" ELSE "fault")

append_state(key, value, F, n) ==
  LET ct == Deref(COMPILE_TIME, "macro")
      state_file == state_file_path(key, ct["macro"])
      bytes == EscapeNewlines(value) \o <<NL>>
      w == OpenAppendAndWrite(fs, state_file, bytes, F, n)
  IN  Return("macro", "append", key, value, F, ct, state_file, w.fs,
             Res(w.ok, w.err, <<>>, FALSE, <<>>), IF w.ok THEN "append" ELSE "fault")

\* A read that takes a missing state file for an empty one.
read_state_default(key, F) ==
  LET ct == Deref(COMPILE_TIME, "macro")
      state_file == state_file_path(key, ct["macro"])
      r == ReadToString(fs, state_file, F)
  IN  Return("macro", "read", key, <<>>, F, ct, state_file, fs,
             Res(r.ok \/ r.err = "NotFound", IF r.err = "NotFound" THEN "" ELSE r.err,
                 r.str, FALSE, <<>>), "none")

read_state(key, F) ==
  LET ct == Deref(COMPILE_TIME, "macro")
      state_file == state_file_path(key, ct["macro"])
      r == ReadToString(fs, state_file, F)
  IN  Return("macro", "read", key, <<>>, F, ct, state_file, fs,
             Res(r.ok, r.err, r.str, FALSE, <<>>), "none")

\* A read_state_vec that drops the empty pieces of the split.
read_state_vec_nonempty(key, F) ==
  LET ct == Deref(COMPILE_TIME, "macro")
      state_file == state_file_path(key, ct["macro"])
      r == ReadToString(fs, state_file, F)
  IN  Return("macro", "read_vec", key, <<>>, F, ct, state_file, fs,
             Res(TRUE, "", <<>>, FALSE,
                 IF r.ok THEN SelectSeq(DecodeList(r.str), LAMBDA item : item # <<>>)
                 ELSE <<>>),
             "none")

read_state_vec(key, F) ==
  LET ct == Deref(COMPILE_TIME, "macro")
      state_file == state_file_path(key, ct["macro"])
      r == ReadToString(fs, state_file, F)
  IN  Return("macro", "read_vec", key, <<>>, F, ct, state_file, fs,
             Res(TRUE, "", <<>>, FALSE, IF r.ok THEN DecodeList(r.str) ELSE <<>>),
             "none")

\* A has that takes an empty state file for a missing one.
has_state_nonempty(key, F) ==
  LET ct == Deref(COMPILE_TIME, "macro")
      state_file == state_file_path(key, ct["macro"])
      r == ReadToString(fs, state_file, F)
  IN  Return("macro", "has", key, <<>>, F, ct, state_file, fs,
             Res(TRUE, "", <<>>, r.ok /\ r.str # <<>>, <<>>), "none")

has_state(key, F) ==
  LET ct == Deref(COMPILE_TIME, "macro")
      state_file == state_file_path(key, ct["macro"])
      r == ReadToString(fs, state_file, F)
  IN  Return("macro", "has", key, <<>>, F, ct, state_file, fs,
             Res(TRUE, "", <<>>, r.ok, <<>>), "none")

\* A clear that hands the error of the removal to its caller.
clear_state_propagating(key, F) ==
  LET ct == Deref(COMPILE_TIME, "macro")
      state_file == state_file_path(key, ct["macro"])
      rm == RemoveFile(fs, state_file, F)
  IN  Return("macro", "clear", key, <<>>, F, ct, state_file, rm.fs,
             Res(rm.ok, rm.err, <<>>, FALSE, <<>>),
             IF rm.ok \/ rm.err = "NotFound" THEN "clear" ELSE "fault")

clear_state(key, F) ==
  LET ct == Deref(COMPILE_TIME, "macro")
      state_file == state_file_path(key, ct["macro"])
      rm == RemoveFile(fs, state_file, F)
  IN  Return("macro", "clear", key, <<>>, F, ct, state_file, rm.fs,
             Res(TRUE, "", <<>>, FALSE, <<>>),
             IF rm.ok \/ rm.err = "NotFound" THEN "clear" ELSE "fault")

\* An init that returns its default also when the key holds a value.
init_state_default(key, value, F, n) ==
  LET ct == Deref(COMPILE_TIME, "macro")
      state_file == state_file_path(key, ct["macro"])
      r == ReadToString(fs, state_file, F)
      w == CreateAndWrite(fs, state_file, value, F, n)
  IN  IF r.ok
      THEN Return("macro", "init", key, value, F, ct, state_file, fs,
                  Res(TRUE, "", value, FALSE, <<>>), "none")
      ELSE Return("macro", "init", key, value, F, ct, state_file, w.fs,
                  Res(w.ok, w.err, IF w.ok THEN value ELSE <<>>, FALSE, <<>>),
                  IF w.ok THEN "init" ELSE "fault")

init_state(key, value, F, n) ==
  LET ct == Deref(COMPILE_TIME, "macro")
      state_file == state_file_path(key, ct["macro"])
      r == ReadToString(fs, state_file, F)
      w == CreateAndWrite(fs, state_file, value, F, n)
  IN  IF r.ok
      THEN Return("macro", "init", key, value, F, ct, state_file, fs,
                  Res(TRUE, "", r.str, FALSE, <<>>), "none")
      ELSE Return("macro", "init", key, value, F, ct, state_file, w.fs,
                  Res(w.ok, w.err, IF w.ok THEN value ELSE <<>>, FALSE, <<>>),
                  IF w.ok THEN "init" ELSE "fault")

\* ------------------------------------------------------------ environment
\* Time passes.
Tick ==
  /\ clock < MaxClock
  /\ clock' = clock + 1
  /\ UNCHANGED <<fs, COMPILE_TIME, last, shadow, threads>>

\* The build process ends and the next one starts on the same storage root:
\* both cells are uninitialised again, the files stay.
Restart ==
  /\ COMPILE_TIME' = [a \in Apis |-> Uninit]
  /\ last' = NoCall
  /\ shadow' = Stale(shadow)
  /\ threads' = [t \in Threads |-> Idle]
  /\ UNCHANGED <<fs, clock>>

Init ==
  /\ fs = [p \in {} |-> <<>>]
  /\ clock = 1
  /\ COMPILE_TIME = [a \in Apis |-> Uninit]
  /\ last = NoCall
  /\ shadow = [ke \in {} |-> Untouched]
  /\ threads = [t \in Threads |-> Idle]

\* The length of the state file a call of the family would address.
FileLen(api, key) ==
  LET p == state_file_path(key, Deref(COMPILE_TIME, api)[api])
  IN  IF p \in DOMAIN fs THEN Len(fs[p]) ELSE 0

\* The state file a call of the family would address exists.
Exists(api, key) ==
  state_file_path(key, Deref(COMPILE_TIME, api)[api]) \in DOMAIN fs

\* The bytes a failing write_all may have written before it failed.
Partial(F, bytes) == IF "write_all" \in F THEN 0..(Len(bytes) - 1) ELSE {0}

\* The calls a build process may make: keys from KS, values from VS, appended
\* items from AS while the state file stays within cap characters, I/O steps
\* among FP failing or not.
Calls(KS, VS, AS, FP, cap) ==
  \/ \E k \in KS, v \in VS, F \in SUBSET (FP \cap {"open", "write_all"}) :
       \E n \in Partial(F, v) : proc_write_state(k, v, F, n)
  \/ \E k \in KS, v \in VS, F \in SUBSET (FP \cap {"open", "write_all"}) :
       \E n \in Partial(F, v) : write_state(k, v, F, n)
  \/ \E k \in KS, F \in SUBSET (FP \cap {"read"}) : proc_read_state(k, F)
  \/ \E k \in KS, F \in SUBSET (FP \cap {"read"}) : read_state(k, F)
  \/ \E k \in KS, F \in SUBSET (FP \cap {"read"}) : proc_has_state(k, F)
  \/ \E k \in KS, F \in SUBSET (FP \cap {"read"}) : has_state(k, F)
  \/ \E k \in KS, F \in SUBSET (FP \cap {"read", "remove"}) : proc_clear_state(k, F)
  \/ \E k \in KS, F \in SUBSET (FP \cap {"remove"}) : clear_state(k, F)
  \/ \E k \in KS, v \in VS, F \in SUBSET (FP \cap {"read", "open", "write_all"}) :
       \E n \in Partial(F, v) : proc_init_state(k, v, F, n)
  \/ \E k \in KS, v \in VS, F \in SUBSET (FP \cap {"read", "open", "write_all"}) :
       \E n \in Partial(F, v) : init_state(k, v, F, n)
  \/ \E k \in KS, v \in AS, F \in SUBSET (FP \cap {"open", "write_all"}) :
       \E n \in Partial(F, EscapeNewlines(v) \o <<NL>>) :
         /\ FileLen("proc", k) + Len(EscapeNewlines(v)) + 1 <= cap
         /\ proc_append_state(k, v, F, n)
  \/ \E k \in KS, v \in AS, F \in SUBSET (FP \cap {"open", "write_all"}) :
       \E n \in Partial(F, EscapeNewlines(v) \o <<NL>>) :
         /\ FileLen("macro", k) + Len(EscapeNewlines(v)) + 1 <= cap
         /\ append_state(k, v, F, n)
  \/ \E k \in KS, F \in SUBSET (FP \cap {"read"}) : proc_read_state_vec(k, F)
  \/ \E k \in KS, F \in SUBSET (FP \cap {"read"}) : read_state_vec(k, F)

\* One build process, at one reading of the clock, on a working storage root.
Next == Calls(OneKey, Values, Values, {}, MaxFileLen)

Spec == Init /\ [][Next]_vars

\* Build processes that follow one another on one storage root while time
\* passes; each family's cell is initialised at its first call.  Items are
\* appended to a key that has no state file only.
NextEpoch ==
  \/ \E k \in OneKey, v \in TinyValues : proc_write_state(k, v, {}, 0)
  \/ \E k \in OneKey, v \in TinyValues : write_state(k, v, {}, 0)
  \/ \E k \in OneKey : proc_read_state(k, {})
  \/ \E k \in OneKey : read_state(k, {})
  \/ \E k \in OneKey : proc_has_state(k, {})
  \/ \E k \in OneKey : has_state(k, {})
  \/ \E k \in OneKey, v \in TinyValues : proc_init_state(k, v, {}, 0)
  \/ \E k \in OneKey, v \in TinyValues :
       ~Exists("proc", k) /\ proc_append_state(k, v, {}, 0)
  \/ \E k \in OneKey, v \in TinyValues :
       ~Exists("macro", k) /\ append_state(k, v, {}, 0)
  \/ \E k \in OneKey : proc_read_state_vec(k, {})
  \/ \E k \in OneKey : read_state_vec(k, {})
  \/ Tick
  \/ Restart

SpecEpoch == Init /\ [][NextEpoch]_vars

\* The number of items appended so far to the list a call would address.
ListLen(api, key) ==
  Len(Shadow(shadow, <<key, Deref(COMPILE_TIME, api)[api]>>).items)

\* Lists: items of IS are appended to one key, read back, and cleared.
ListCalls(IS) ==
  \/ \E k \in OneKey, v \in IS :
       /\ ListLen("proc", k) < MaxListLen
       /\ proc_append_state(k, v, {}, 0)
  \/ \E k \in OneKey, v \in IS :
       /\ ListLen("macro", k) < MaxListLen
       /\ append_state(k, v, {}, 0)
  \/ \E k \in OneKey : proc_read_state_vec(k, {})
  \/ \E k \in OneKey : read_state_vec(k, {})
  \/ \E k \in OneKey : proc_clear_state(k, {})
  \/ \E k \in OneKey : clear_state(k, {})

NextList == ListCalls(Items)

SpecList == Init /\ [][NextList]_vars

\* Lists of short items: the empty item, single characters, backslash + n.
NextItems == ListCalls(Values)

SpecItems == Init /\ [][NextItems]_vars

\* One build process on a storage root whose I/O steps may fail.
NextFault == Calls(OneKey, TinyValues, TinyValues, FaultPoints, MaxFileLen)

SpecFault == Init /\ [][NextFault]_vars

\* ------------------------------------------- threads inside write calls
\* Values of different lengths for writers that race.
RaceValues == TinyValues \cup {Escape}

\* A first access that tests the cell and runs the initialiser without
\* excluding the other threads.
COMPILE_TIME_deref_racy(t, api) ==
  /\ threads[t].pc = "idle"
  /\ threads' = [threads EXCEPT ![t] =
        IF COMPILE_TIME[api] # Uninit
        THEN [Idle EXCEPT !.pc = "epoch", !.api = api, !.seen = COMPILE_TIME[api]]
        ELSE [Idle EXCEPT !.pc = "init", !.api = api]]
  /\ UNCHANGED <<fs, clock, COMPILE_TIME, last, shadow>>

\* A thread enters its write call of the family and dereferences COMPILE_TIME:
\* it takes the value of an initialised cell; it becomes the one thread that
\* runs the initialiser of an uninitialised cell; it is blocked while another
\* thread runs the initialiser.
COMPILE_TIME_deref(t, api) ==
  /\ threads[t].pc = "idle"
  /\ COMPILE_TIME[api] = Uninit
       => \A u \in Threads : ~(threads[u].pc = "init" /\ threads[u].api = api)
  /\ threads' = [threads EXCEPT ![t] =
        IF COMPILE_TIME[api] # Uninit
        THEN [Idle EXCEPT !.pc = "epoch", !.api = api, !.seen = COMPILE_TIME[api]]
        ELSE [Idle EXCEPT !.pc = "init", !.api = api]]
  /\ UNCHANGED <<fs, clock, COMPILE_TIME, last, shadow>>

\* The initialiser: SystemTime::now() ... as_nanos() is stored in the cell.
COMPILE_TIME_init(t) ==
  /\ threads[t].pc = "init"
  /\ COMPILE_TIME' = [COMPILE_TIME EXCEPT ![threads[t].api] = clock]
  /\ threads' = [threads EXCEPT ![t].pc = "epoch", ![t].seen = clock]
  /\ UNCHANGED <<fs, clock, last, shadow>>

\* File::create(state_file_path(key)): the file exists and is empty; the
\* thread's file offset is 0.
File_create(t, key, value) ==
  /\ threads[t].pc = "epoch"
  /\ fs' = Put(fs, state_file_path(key, threads[t].seen), <<>>)
  /\ threads' = [threads EXCEPT ![t].pc = "created", ![t].key = key, ![t].buf = value]
  /\ UNCHANGED <<clock, COMPILE_TIME, last, shadow>>

\* file.write_all(value.as_bytes()) at the thread's file offset, and the call
\* returns.
File_write_all(t) ==
  LET me == threads[t]
      p == state_file_path(me.key, me.seen)
  IN  /\ me.pc = "created"
      /\ fs' = Put(fs, p, WriteAt(fs[p], 0, me.buf))
      /\ threads' = [threads EXCEPT ![t].pc = "written"]
      /\ last' = [NoCall EXCEPT !.op = "write", !.api = me.api, !.key = me.key,
                                !.epoch = me.seen, !.arg = me.buf, !.had = TRUE,
                                !.effect = "write"]
      /\ shadow' = Advance(shadow, <<me.key, me.seen>>, "write", "write", me.buf)
      /\ UNCHANGED <<clock, COMPILE_TIME>>

\* The threads of one build process make one write call each; reads are made
\* while no thread is inside a call.
NextThreads ==
  \/ \E t \in Threads, a \in Apis : COMPILE_TIME_deref(t, a)
  \/ \E t \in Threads : COMPILE_TIME_init(t)
  \/ \E t \in Threads, k \in OneKey, v \in RaceValues : File_create(t, k, v)
  \/ \E t \in Threads : File_write_all(t)
  \/ \E k \in OneKey : Quiet /\ proc_read_state(k, {})
  \/ \E k \in OneKey : Quiet /\ read_state(k, {})
  \/ Tick

SpecThreads == Init /\ [][NextThreads]_vars

\* ------------------------------------- the two families, call for call
\* The key's state file under epoch ct in the files f: <<content>>, or <<>>
\* when there is none.
StoreOf(f, ct, key) ==
  LET p == state_file_path(key, ct)
  IN  IF p \in DOMAIN f THEN <<f[p]>> ELSE <<>>

\* The key's state file as a call of the family would find it.
StoreAt(api, key) == StoreOf(fs, Deref(COMPILE_TIME, api)[api], key)

\* I/O steps that fail as a whole (open, read, remove).
PairFaults == FaultPoints \ {"write_all"}

\* The macro family may make its next call: the proc_* family has made the
\* call before it, and every key is stored alike for the two families.
InStep == last.api # "macro" /\ \A k \in OneKey : StoreAt("macro", k) = StoreAt("proc", k)

\* The proc_* family makes the call the macro family has just made, under an
\* epoch of its own.
Follows(op) ==
  /\ last.api = "macro" /\ last.op = op
  /\ Deref(COMPILE_TIME, "proc")["proc"] # COMPILE_TIME["macro"]

\* Every call is made through the macro and then, with the same arguments and
\* the same I/O steps failing, through the proc_* function.
NextPair ==
  \/ \E k \in OneKey, v \in TinyValues, F \in SUBSET (PairFaults \cap {"open"}) :
       InStep /\ write_state(k, v, F, 0)
  \/ \E k \in OneKey, v \in TinyValues, F \in SUBSET (PairFaults \cap {"open"}) :
       InStep /\ FileLen("macro", k) + Len(v) + 1 <= MaxFileLen /\ append_state(k, v, F, 0)
  \/ \E k \in OneKey, F \in SUBSET (PairFaults \cap {"read"}) : InStep /\ read_state(k, F)
  \/ \E k \in OneKey, F \in SUBSET (PairFaults \cap {"read"}) :
       InStep /\ read_state_vec(k, F)
  \/ \E k \in OneKey, F \in SUBSET (PairFaults \cap {"read"}) : InStep /\ has_state(k, F)
  \/ \E k \in OneKey, F \in SUBSET (PairFaults \cap {"read", "remove"}) :
       InStep /\ clear_state(k, F)
  \/ \E k \in OneKey, v \in TinyValues, F \in SUBSET (PairFaults \cap {"read", "open"}) :
       InStep /\ init_state(k, v, F, 0)
  \/ Follows("write") /\ proc_write_state(last.key, last.arg, last.faults, 0)
  \/ Follows("append") /\ proc_append_state(last.key, last.arg, last.faults, 0)
  \/ Follows("read") /\ proc_read_state(last.key, last.faults)
  \/ Follows("read_vec") /\ proc_read_state_vec(last.key, last.faults)
  \/ Follows("has") /\ proc_has_state(last.key, last.faults)
  \/ Follows("clear") /\ proc_clear_state(last.key, last.faults)
  \/ Follows("init") /\ proc_init_state(last.key, last.arg, last.faults, 0)
  \/ Tick

SpecPair == Init /\ [][NextPair]_vars

\* --------------------------------------------- several keys and epochs
\* One build process that stores under two keys, one of which extends the
\* other, through the proc_* functions, while write_state! of the macro
\* family fills the same keys under that family's own epoch.  One value is
\* stored, and items are appended to a key that has no state file only.
FrameValues == {<<"n">>}

NextFrame ==
  \/ \E k \in Keys, v \in FrameValues : proc_write_state(k, v, {}, 0)
  \/ \E k \in Keys, v \in FrameValues :
       ~Exists("proc", k) /\ proc_append_state(k, v, {}, 0)
  \/ \E k \in Keys, v \in FrameValues : proc_init_state(k, v, {}, 0)
  \/ \E k \in Keys : proc_clear_state(k, {})
  \/ \E k \in Keys : proc_read_state(k, {})
  \/ \E k \in Keys : proc_has_state(k, {})
  \/ \E k \in Keys : proc_read_state_vec(k, {})
  \/ \E k \in Keys, v \in FrameValues : write_state(k, v, {}, 0)
  \/ Tick

SpecFrame == Init /\ [][NextFrame]_vars

\* ------------------------------------------------------------------ claims
\* The record of the location the latest call addressed.
Cur == Shadow(shadow, <<last.key, last.epoch>>)

HasNewline(s) == \E i \in 1..Len(s) : s[i] = NL

\* C1: a read that immediately follows a successful write of v to the same key
\* succeeds and returns exactly v: nothing trimmed, nothing decoded.
C1_WriteThenRead ==
  (last.op = "read" /\ last.fresh /\ Cur.mut = "write")
    => (last.ok /\ last.str = Cur.val)

\* A read right after a write returned the written backslash + n unchanged.
C1_Witness ==
  /\ last.op = "read" /\ last.fresh /\ Cur.mut = "write"
  /\ Cur.val = Escape /\ last.str = Escape

\* C2: for one key, different epochs give different paths and equal epochs the
\* same path; a read, has or read_state_vec under an epoch finds something only
\* if a write, append or init was made under that very epoch, and a read of a
\* key written under it returns the value written under it.
C2_EpochIsolation ==
  /\ \A k \in Keys, e1 \in 1..MaxClock, e2 \in 1..MaxClock :
       (state_file_path(k, e1) = state_file_path(k, e2)) <=> (e1 = e2)
  /\ (last.op = "read" /\ last.ok) => Cur.born
  /\ (last.op = "has" /\ last.flag) => Cur.born
  /\ (last.op = "read_vec" /\ last.list # <<>>) => Cur.born
  /\ (last.op = "read" /\ Cur.kind = "scalar") => (last.ok /\ last.str = Cur.val)

\* A read returned its own epoch's value while the same key holds another value
\* under another epoch.
C2_Witness ==
  /\ last.op = "read" /\ last.ok
  /\ \E e \in 1..MaxClock :
       /\ e # last.epoch
       /\ Shadow(shadow, <<last.key, e>>).kind = "scalar"
       /\ Shadow(shadow, <<last.key, e>>).val # last.str

\* C3: whenever the latest call that changed a key is a successful write of v,
\* a read returns exactly v, whatever the key held before that write.
C3_LastWriteWins ==
  (last.op = "read" /\ Cur.mut = "write") => (last.ok /\ last.str = Cur.val)

\* A later read returned the value written over a list of appended items.
C3_Witness ==
  /\ last.op = "read" /\ ~last.fresh /\ Cur.mut = "write" /\ Cur.over = "list"
  /\ last.str = Cur.val

\* C4: init on an absent key stores and returns its default; init on a key
\* that holds a value returns that value and stores nothing; a read after an
\* init that stored d returns d.
C4_InitFirstCallWins ==
  /\ (last.op = "init" /\ last.prekind = "absent")
       => (last.ok /\ last.str = last.arg /\ last.effect = "init")
  /\ (last.op = "init" /\ last.prekind = "scalar")
       => (last.ok /\ last.str = Cur.val /\ last.effect = "none")
  /\ (last.op = "read" /\ Cur.mut = "init") => (last.ok /\ last.str = Cur.val)

\* The init right after the first init on an absent key was given another
\* default and returned the first one.
C4_Witness ==
  /\ last.op = "init" /\ last.fresh /\ last.effect = "none"
  /\ Cur.mut = "init" /\ Cur.over = "absent"
  /\ last.arg # Cur.val /\ last.str = Cur.val

\* C5: read_state_vec of a key built from absent by appends of newline-free
\* items returns exactly the appended items, in order.
C5_AppendedItemsReadBack ==
  (last.op = "read_vec" /\ Cur.kind = "list"
     /\ \A i \in 1..Len(Cur.items) : ~HasNewline(Cur.items[i]))
    => last.list = Cur.items

\* C6: every appended item that contains a newline is read back unchanged, as
\* one item at its position.
C6_NewlineItemRecovered ==
  (last.op = "read_vec" /\ Cur.kind = "list")
    => \A i \in 1..Len(Cur.items) :
         HasNewline(Cur.items[i])
           => (Len(last.list) = Len(Cur.items) /\ last.list[i] = Cur.items[i])

\* C7: one append of any string s to an absent key reads back as the list <<s>>.
C7_ListRoundTrip ==
  (last.op = "read_vec" /\ Cur.kind = "list" /\ Len(Cur.items) = 1)
    => last.list = Cur.items

\* C8: once clear is the latest call that changed a key, has returns false.
C8_ClearThenHas ==
  (last.op = "has" /\ Cur.mut = "clear") => ~last.flag

\* A has right after the clear of a key that held a list returned false.
C8_Witness ==
  /\ last.op = "has" /\ last.fresh /\ Cur.mut = "clear" /\ Cur.over = "list"
  /\ ~last.flag

\* C9, as claimed: no clear call reports an error.
C9_ClearNeverFails ==
  last.op = "clear" => last.ok

\* C9, amended: clear_state! never reports an error; proc_clear_state reports
\* one exactly when the state file was read and its removal failed.
C9_ClearErrors ==
  /\ (last.op = "clear" /\ last.api = "macro") => last.ok
  /\ (last.op = "clear" /\ last.api = "proc")
       => (last.ok <=> ~(last.had /\ "read" \notin last.faults
                          /\ "remove" \in last.faults))

\* clear_state! swallowed the failed removal of an existing state file.
C9_Witness ==
  /\ last.op = "clear" /\ last.api = "macro" /\ last.had
  /\ "remove" \in last.faults /\ last.ok

\* C10: has is false for a key no write, append or init was made on under the
\* epoch, and true right after a write or an append, whatever was stored.
C10_HasTracksWrites ==
  /\ (last.op = "has" /\ ~Cur.born) => ~last.flag
  /\ (last.op = "has" /\ last.fresh /\ Cur.mut \in {"write", "append"}) => last.flag

\* A has right after the write of the empty string returned true.
C10_Witness ==
  /\ last.op = "has" /\ last.fresh /\ Cur.mut = "write" /\ Cur.val = <<>>
  /\ last.flag

\* C11: has never fails, and it returns true exactly when the state file exists
\* and reading it does not fail, which is exactly when a read succeeds.
C11_HasIffReadSucceeds ==
  /\ last.op = "has"
       => (last.ok /\ (last.flag <=> (last.had /\ "read" \notin last.faults)))
  /\ last.op = "read"
       => (last.ok <=> (last.had /\ "read" \notin last.faults))

\* has returned false for a state file that exists and could not be read.
C11_Witness ==
  /\ last.op = "has" /\ last.had /\ "read" \in last.faults /\ ~last.flag

C13_NewlineIsEmptyList ==
  (last.op = "read_vec" /\ Cur.kind = "scalar" /\ Cur.val = <<NL>>)
    => last.list = <<>>

\* C14: after a write of v over a list and one append of f, read_state_vec
\* returns a single item, and for the empty v exactly the list <<f>>.
C14_WriteDiscardsList ==
  (last.op = "read_vec" /\ Cur.kind = "mixed" /\ Len(Cur.items) = 1
     /\ Cur.under = "list")
    => /\ Len(last.list) = 1
       /\ Cur.base = <<>> => last.list = Cur.items

\* The state file the latest call addressed.
CurPath == state_file_path(last.key, last.epoch)

\* C15: a read returns the content of the state file, and a successful append
\* of f leaves in the state file what it held before (nothing if it did not
\* exist), then f with its newlines escaped, then one newline; no other file
\* changes.
C15_AppendNeverTruncates ==
  /\ [](last.op = "read" /\ last.ok => last.str = fs[CurPath])
  /\ [][(last'.op = "append" /\ last'.ok /\ fs' # fs)
          => LET p == state_file_path(last'.key, last'.epoch)
             IN  /\ p \in DOMAIN fs'
                 /\ fs'[p] = (IF p \in DOMAIN fs THEN fs[p] ELSE <<>>)
                               \o EscapeNewlines(last'.arg) \o <<NL>>
                 /\ \A q \in DOMAIN fs \ {p} : q \in DOMAIN fs' /\ fs'[q] = fs[q]]_vars

\* An item was appended on top of a non-empty scalar, which is still at the
\* head of the state file.
C15_Witness ==
  /\ last.op = "append" /\ last.ok /\ last.had
  /\ Cur.kind = "mixed" /\ Cur.base # <<>> /\ last.arg # <<>>
  /\ fs[CurPath] = Cur.base \o EscapeNewlines(last.arg) \o <<NL>>

\* C16: a read fails with NotFound exactly when the key has no state file,
\* which is when nothing was stored under it or it was cleared since; when the
\* state file exists the read succeeds and returns its content as stored.
C16_ReadNotFoundIffAbsent ==
  last.op = "read"
    => /\ ~last.had <=> Cur.kind = "absent"
       /\ ~last.had => (~last.ok /\ last.err = "NotFound")
       /\ last.had => (last.ok /\ last.str = fs[CurPath])
       /\ Cur.kind = "scalar" => last.str = Cur.val

\* A read of a key that was written and then cleared failed with NotFound.
C16_Witness ==
  /\ last.op = "read" /\ Cur.mut = "clear" /\ Cur.over = "scalar"
  /\ ~last.ok /\ last.err = "NotFound"

C19_ConcurrentWritesLastWins ==
  (/\ last.op = "read"
   /\ \A t \in Threads : /\ threads[t].pc = "written"
                         /\ threads[t].key = last.key
                         /\ threads[t].seen = last.epoch)
    => (last.ok /\ \E t \in Threads : last.str = threads[t].buf)

\* C18: the two families' COMPILE_TIME cells, once initialised, hold the same
\* value, and so give the same state file for the same key.
C18_SingleEpoch ==
  \A a \in Apis, b \in Apis :
    (COMPILE_TIME[a] # Uninit /\ COMPILE_TIME[b] # Uninit)
      => /\ COMPILE_TIME[a] = COMPILE_TIME[b]
         /\ \A k \in Keys : state_file_path(k, COMPILE_TIME[a])
                              = state_file_path(k, COMPILE_TIME[b])

\* What read_state_vec returns for the state file at path p of the files f.
ListAt(f, p) == IF p \in DOMAIN f THEN DecodeList(f[p]) ELSE <<>>

\* C20: a key built from absent by N appends reads back as N items, and each
\* append, whatever the item, makes the list read_state_vec returns one item
\* longer and keeps the items it returned before as they were.
C20_AppendAddsOneItem ==
  /\ []((last.op = "read_vec" /\ Cur.kind \in {"absent", "list"})
          => Len(last.list) = Len(Cur.items))
  /\ [][(last'.op = "append" /\ last'.ok /\ fs' # fs)
          => LET p == state_file_path(last'.key, last'.epoch)
                 old == ListAt(fs, p)
                 new == ListAt(fs', p)
             IN  /\ Len(new) = Len(old) + 1
                 /\ SubSeq(new, 1, Len(old)) = old]_vars

\* Two items, one with a newline and one with backslash + n, were appended and
\* read back as two items.
C20_Witness ==
  /\ last.op = "read_vec" /\ Cur.kind = "list" /\ Len(Cur.items) = 2
  /\ HasNewline(Cur.items[1]) /\ Cur.items[2] = Escape
  /\ Len(last.list) = 2

\* The proc_* call of this step returned what the macro call before it did.
SameResult ==
  /\ last'.ok = last.ok /\ last'.err = last.err /\ last'.str = last.str
  /\ last'.flag = last.flag /\ last'.list = last.list

\* After this step every key is stored alike for the two families.
SameStore ==
  \A k \in OneKey : StoreOf(fs', COMPILE_TIME'["macro"], k)
                      = StoreOf(fs', COMPILE_TIME'["proc"], k)

\* C21, as claimed: each proc_* call returns what the macro call made before
\* it on a like store returned, and leaves the store as the macro call left
\* its own.
C21_ProcMatchesMacros ==
  [][(last.api = "macro" /\ last'.api = "proc") => (SameResult /\ SameStore)]_vars

\* C21, amended: the same, except for a clear of a key whose state file
\* exists: when only its removal fails, proc_clear_state returns the error and
\* clear_state! none (both leave the file); when only reading it fails,
\* proc_clear_state leaves the file and clear_state! removes it.
C21_ProcMatchesMacrosButClear ==
  [][(last.api = "macro" /\ last'.api = "proc")
       => LET F == last.faults
              clearing == last.op = "clear" /\ last.had
          IN  /\ ~(clearing /\ "remove" \in F /\ "read" \notin F) => SameResult
              /\ ~(clearing /\ "read" \in F /\ "remove" \notin F) => SameStore
              /\ (clearing /\ "remove" \in F /\ "read" \notin F)
                   => (last.ok /\ ~last'.ok /\ SameStore)
              /\ (clearing /\ "read" \in F /\ "remove" \notin F)
                   => /\ SameResult
                      /\ StoreOf(fs', COMPILE_TIME'["macro"], last.key) = <<>>
                      /\ StoreOf(fs', COMPILE_TIME'["proc"], last.key) # <<>>]_vars

\* A proc_read_state_vec followed a read_state_vec! of the macro family's own,
\* non-empty state file and returned the same list from the proc_* family's.
C21_Witness ==
  /\ last.api = "proc" /\ last.op = "read_vec" /\ last.list # <<>>
  /\ COMPILE_TIME["macro"] # COMPILE_TIME["proc"]
  /\ StoreAt("macro", last.key) = StoreAt("proc", last.key)
  /\ StoreAt("macro", last.key) # <<>>

C23_OtherKeysUntouched ==
  [][\A q \in DOMAIN fs \cup DOMAIN fs' :
       q # state_file_path(last'.key, last'.epoch)
         => (q \in DOMAIN fs /\ q \in DOMAIN fs' /\ fs'[q] = fs[q])]_vars

\* A key was cleared while the other key holds a value under the same epoch
\* and the cleared key still holds one under another epoch.
C23_Witness ==
  /\ last.op = "clear" /\ last.had /\ StoreOf(fs, last.epoch, last.key) = <<>>
  /\ \E k \in Keys : k # last.key /\ StoreOf(fs, last.epoch, k) # <<>>
  /\ \E e \in 1..MaxClock : e # last.epoch /\ StoreOf(fs, e, last.key) # <<>>

\* C24: read, has and read_state_vec change no file, whether they succeed or
\* fail, and the same observer repeated on the same key under the same faults
\* returns what it returned before; init on a key whose state file reads
\* changes no file and returns the stored value.
C24_ObserversChangeNothing ==
  [][/\ last'.op \in {"read", "has", "read_vec"} => fs' = fs
     /\ (/\ last'.op \in {"read", "has", "read_vec"}
         /\ last.op = last'.op /\ last.api = last'.api /\ last.key = last'.key
         /\ last.epoch = last'.epoch /\ last.faults = last'.faults)
          => /\ last'.ok = last.ok /\ last'.err = last.err /\ last'.str = last.str
             /\ last'.flag = last.flag /\ last'.list = last.list
     /\ (last'.op = "init" /\ last'.had /\ "read" \notin last'.faults)
          => /\ fs' = fs /\ last'.ok
             /\ last'.str = fs[state_file_path(last'.key, last'.epoch)]]_vars

\* A read failed on a key that holds a value, and the value is still there.
C24_Witness ==
  /\ last.op = "read" /\ ~last.ok /\ "read" \in last.faults /\ last.had
  /\ Cur.kind = "scalar" /\ Cur.val # <<>>
  /\ StoreOf(fs, last.epoch, last.key) = <<Cur.val>>

\* C25: a write that reports an error leaves the state file of its key as it
\* was, absent or with the content it had.
C25_FailedWriteKeepsKey ==
  [][(last'.op = "write" /\ ~last'.ok)
       => StoreOf(fs', last'.epoch, last'.key) = StoreOf(fs, last'.epoch, last'.key)]_vars

====
